---- MODULE Spec2Model ----
(***************************************************************************)
(* Model of scrape.py: the heuristic function-boundary extractor.          *)
(*                                                                         *)
(* A text is a sequence of one-character strings; a file is the list of    *)
(* its lines as readlines() returns them.  Indices i, j, start and the     *)
(* cursors are 0-based as in the Python source; TLA+ sequences are         *)
(* 1-based, so line k of the file is lines[k + 1].                         *)
(***************************************************************************)
EXTENDS Integers, Sequences, FiniteSets, TLC

(* Largest number of lines of a scanned file. *)
MaxLines == 3

NL == "\n"

CURLY == <<"{", "}">>

PARENS == <<"(", ")">>

(* Characters str.strip() removes, among the characters of the model. *)
Whitespace == {" ", NL}

(* Characters that may form a name token. *)
Letters == {"f", "x"}

(***************************************************************************)
(* Python built-ins used by the source.                                    *)
(***************************************************************************)

Min(a, b) == IF a < b THEN a ELSE b

Max(a, b) == IF a > b THEN a ELSE b

(* s[a:b] with Python's treatment of negative and out-of-range indices. *)
Slice(s, a, b) ==
    LET n  == Len(s)
        lo == IF a < 0 THEN Max(a + n, 0) ELSE Min(a, n)
        hi == IF b < 0 THEN Max(b + n, 0) ELSE Min(b, n)
    IN  IF lo >= hi THEN <<>> ELSE SubSeq(s, lo + 1, hi)

(* s[a:] *)
SliceFrom(s, a) == Slice(s, a, Len(s))

(* ''.join(parts) *)
RECURSIVE join(_)
join(parts) ==
    IF parts = <<>> THEN <<>> ELSE Head(parts) \o join(Tail(parts))

(* c in s *)
contains(s, c) == \E k \in 1..Len(s) : s[k] = c

(* s.find(c): index of the first occurrence, -1 when there is none. *)
find(s, c) ==
    IF contains(s, c)
    THEN (CHOOSE k \in 1..Len(s) : s[k] = c /\ \A m \in 1..(k - 1) : s[m] # c) - 1
    ELSE -1

(* s.replace(c, '') *)
remove(s, c) == SelectSeq(s, LAMBDA ch : ch # c)

RECURSIVE lstrip(_)
lstrip(s) ==
    IF s # <<>> /\ Head(s) \in Whitespace THEN lstrip(Tail(s)) ELSE s

RECURSIVE rstrip(_)
rstrip(s) ==
    IF s # <<>> /\ s[Len(s)] \in Whitespace
    THEN rstrip(SubSeq(s, 1, Len(s) - 1))
    ELSE s

(* s.strip() *)
strip(s) == lstrip(rstrip(s))

(* s.endswith(suffix) *)
endswith(s, suffix) ==
    /\ Len(s) >= Len(suffix)
    /\ SubSeq(s, Len(s) - Len(suffix) + 1, Len(s)) = suffix

(***************************************************************************)
(* Balance scanner.                                                        *)
(***************************************************************************)

RECURSIVE get_balance(_, _)
get_balance(line, braces) ==
    IF line = <<>> THEN 0
    ELSE (IF Head(line) = braces[1] THEN 1
          ELSE IF Head(line) = braces[2] THEN -1
          ELSE 0) + get_balance(Tail(line), braces)

(***************************************************************************)
(* Boundary extractors.  Each returns the new cursor, the full text and    *)
(* the clean body.                                                         *)
(***************************************************************************)

(* The enumerate loop of extract_curly_oneliner, from index k on. *)
RECURSIVE curly_oneliner_scan(_, _, _, _)
curly_oneliner_scan(line, k, start_clean, end_clean) ==
    IF k >= Len(line) THEN <<start_clean, end_clean>>
    ELSE LET c  == line[k + 1]
             sc == IF c = "{" /\ start_clean = -1 THEN k + 1 ELSE start_clean
             ec == IF c = "}" THEN k ELSE end_clean
         IN  curly_oneliner_scan(line, k + 1, sc, ec)

extract_curly_oneliner(start, header, line) ==
    LET se == curly_oneliner_scan(line, 0, -1, -1)
    IN  [cursor |-> start, body |-> header, clean_body |-> Slice(line, se[1], se[2])]

(* The closing line j was found. *)
curly_found_strip_both(start, j, header, lines) ==
    [cursor     |-> j,
     body       |-> join(<<header>> \o Slice(lines, start + 1, j + 1)),
     clean_body |-> remove(remove(join(Slice(lines, start + 1, j + 1)), "}"), "{")]

curly_found(start, j, header, lines) ==
    [cursor     |-> j,
     body       |-> join(<<header>> \o Slice(lines, start + 1, j + 1)),
     clean_body |-> remove(join(Slice(lines, start + 1, j + 1)), "}")]

(* The brace was left hanging. *)
curly_hanging_past_end(header, lines) ==
    [cursor |-> Len(lines), body |-> <<>>, clean_body |-> <<>>]

curly_hanging_keep_header(header, lines) ==
    [cursor |-> Len(lines) - 1, body |-> header, clean_body |-> header]

curly_hanging(header, lines) ==
    [cursor |-> Len(lines) - 1, body |-> <<>>, clean_body |-> <<>>]

RECURSIVE curly_loop_nonpositive(_, _, _, _, _)
curly_loop_nonpositive(j, curly_balance, start, header, lines) ==
    IF j >= Len(lines) THEN curly_hanging(header, lines)
    ELSE LET b == curly_balance + get_balance(lines[j + 1], CURLY)
         IN  IF b <= 0 THEN curly_found(start, j, header, lines)
             ELSE curly_loop_nonpositive(j + 1, b, start, header, lines)

(* The for loop of extract_curly_function, from index j on. *)
RECURSIVE curly_loop(_, _, _, _, _)
curly_loop(j, curly_balance, start, header, lines) ==
    IF j >= Len(lines) THEN curly_hanging(header, lines)
    ELSE LET b == curly_balance + get_balance(lines[j + 1], CURLY)
         IN  IF b = 0 THEN curly_found(start, j, header, lines)
             ELSE curly_loop(j + 1, b, start, header, lines)

extract_curly_function(start, initial_curly_balance, header, lines) ==
    curly_loop(start + 1, initial_curly_balance, start, header, lines)

get_ident_skip_newline(line) ==
    IF \E k \in 1..Len(line) : line[k] \notin Whitespace
    THEN (CHOOSE k \in 1..Len(line) :
             line[k] \notin Whitespace /\ \A m \in 1..(k - 1) : line[m] \in Whitespace) - 1
    ELSE 0

get_ident(line) ==
    IF \E k \in 1..Len(line) : line[k] # " "
    THEN (CHOOSE k \in 1..Len(line) :
             line[k] # " " /\ \A m \in 1..(k - 1) : line[m] = " ") - 1
    ELSE 0

(* The while loop of extract_python_function, from index j on. *)
RECURSIVE python_loop(_, _, _)
python_loop(j, ident, lines) ==
    IF j + 1 < Len(lines) /\ get_ident(lines[j + 2]) >= ident + 4
    THEN python_loop(j + 1, ident, lines)
    ELSE j

extract_python_function(start, header, line, lines) ==
    LET ident == get_ident(line)
        j     == python_loop(start, ident, lines)
    IN  [cursor     |-> j,
         body       |-> join(<<header>> \o Slice(lines, start + 1, j + 1)),
         clean_body |-> join(Slice(lines, start + 1, j + 1))]

extract_clean_oneliner(start, header, line) ==
    [cursor |-> start, body |-> line, clean_body |-> SliceFrom(line, find(line, "=") + 1)]

(***************************************************************************)
(* Input files.  A line is as readlines() returns it: non-empty, ending    *)
(* with its newline, except that the last line of a file may lack it.      *)
(***************************************************************************)

Lines ==
    { <<"f", "(", ")", "{", "x", "}", NL>>,
      <<"f", "(", ")", "{", "}", NL>>,
      <<"f", "(", ")", "{", ":", NL>>,
      <<"}", NL>>,
      <<"}", "}", NL>>,
      <<" ", " ", " ", " ", "1", NL>>,
      <<"f", "(", ")", ":", NL>>,
      <<"f", "(", ")", ";", NL>>,
      <<"f", "(", NL>>,
      <<"f", "(", ")", ".", ".", ".", NL>>,
      <<NL>>,
      <<" ", " ", " ", " ", NL>>,
      <<"f", "(", ")", "=", "1", NL>> }

(* Last lines of a file that does not end with a newline. *)
EofLines ==
    { <<" ", " ", " ", " ">> }

Files ==
    UNION { { f \in [1..n -> Lines \cup EofLines] : \A k \in 1..(n - 1) : f[k] \in Lines }
            : n \in 1..MaxLines }

(* All subsequences of s, order kept. *)
RECURSIVE SubSeqs(_)
SubSeqs(s) ==
    IF s = <<>> THEN {<<>>}
    ELSE LET rest == SubSeqs(Tail(s))
         IN  rest \cup { <<Head(s)>> \o r : r \in rest }

(* The texts of the function-name tokens a lexer may report on a line, in  *)
(* order: some of the names that occur in it.                              *)
FunctionTokens(line) == SubSeqs(SelectSeq(line, LAMBDA c : c \in Letters))

RECURSIVE TokenStreams(_)
TokenStreams(ls) ==
    IF ls = <<>> THEN {<<>>}
    ELSE { <<t>> \o rest : t \in FunctionTokens(Head(ls)), rest \in TokenStreams(Tail(ls)) }

(***************************************************************************)
(* Function locator: process_filename.                                     *)
(***************************************************************************)

VARIABLES
    lines,      \* the lines of the file
    toks,       \* toks[k + 1]: texts of the function-name tokens of line k
    i,          \* the scan index
    methods,    \* the records found, <<name, body>>
    missed,     \* the miss counter
    pc,         \* "scan" inside the while loop, "done" after the return
    hist        \* history: one entry per iteration of the while loop

vars == <<lines, toks, i, methods, missed, pc, hist>>

Init ==
    /\ lines \in Files
    /\ toks \in TokenStreams(lines)
    /\ i = 0
    /\ methods = <<>>
    /\ missed = 0
    /\ pc = "scan"
    /\ hist = <<>>

(* The if/elif chain that picks the extractor for a header line. *)
Select_colon_first(line) ==
    IF endswith(strip(line), <<":">>) THEN "python_function"
    ELSE IF contains(line, "{")
    THEN (IF get_balance(line, CURLY) = 0 THEN "curly_oneliner" ELSE "curly_function")
    ELSE IF /\ ~endswith(strip(line), <<";">>)
            /\ ~endswith(strip(line), <<".", ".", ".">>)
            /\ get_balance(line, PARENS) = 0
    THEN "clean_oneliner"
    ELSE "missed"

Select_no_parens(line) ==
    IF contains(line, "{")
    THEN (IF get_balance(line, CURLY) = 0 THEN "curly_oneliner" ELSE "curly_function")
    ELSE IF endswith(strip(line), <<":">>) THEN "python_function"
    ELSE IF /\ ~endswith(strip(line), <<";">>)
            /\ ~endswith(strip(line), <<".", ".", ".">>)
    THEN "clean_oneliner"
    ELSE "missed"

Select(line) ==
    IF contains(line, "{")
    THEN (IF get_balance(line, CURLY) = 0 THEN "curly_oneliner" ELSE "curly_function")
    ELSE IF endswith(strip(line), <<":">>) THEN "python_function"
    ELSE IF /\ ~endswith(strip(line), <<";">>)
            /\ ~endswith(strip(line), <<".", ".", ".">>)
            /\ get_balance(line, PARENS) = 0
    THEN "clean_oneliner"
    ELSE "missed"

(* The test that guards methods.append. *)
should_append_unstripped(clean_body) == clean_body # <<>>

should_append(clean_body) == strip(clean_body) # <<>>

(* The scan index after an iteration at line h whose extractor returned cursor. *)
next_index_header(h, cursor) == h + 1

next_index_stay(h, cursor) == cursor

next_index(h, cursor) == cursor + 1

(* The while-loop test holds and line i carries a function-name token. *)
AtFunction(kind) ==
    /\ pc = "scan"
    /\ i < Len(lines)
    /\ toks[i + 1] # <<>>
    /\ Select(lines[i + 1]) = kind

(* The rest of the iteration once the extractor has returned r. *)
Record(kind, r, miss) ==
    LET name == Head(toks[i + 1])
    IN  /\ methods' = IF should_append(r.clean_body)
                      THEN Append(methods, <<name, r.body>>)
                      ELSE methods
        /\ missed' = missed + miss
        /\ i' = next_index(i, r.cursor)
        /\ hist' = Append(hist, [h |-> i, kind |-> kind, name |-> name,
                                 cursor |-> r.cursor, body |-> r.body,
                                 clean_body |-> r.clean_body,
                                 nmethods |-> Len(methods'), missed |-> missed'])
        /\ UNCHANGED <<lines, toks, pc>>

CurlyOneliner ==
    /\ AtFunction("curly_oneliner")
    /\ Record("curly_oneliner", extract_curly_oneliner(i, lines[i + 1], lines[i + 1]), 0)

CurlyFunction ==
    /\ AtFunction("curly_function")
    /\ Record("curly_function",
              extract_curly_function(i, get_balance(lines[i + 1], CURLY), lines[i + 1], lines), 0)

PythonFunction ==
    /\ AtFunction("python_function")
    /\ Record("python_function",
              extract_python_function(i, lines[i + 1], lines[i + 1], lines), 0)

CleanOneliner ==
    /\ AtFunction("clean_oneliner")
    /\ Record("clean_oneliner", extract_clean_oneliner(i, lines[i + 1], lines[i + 1]), 0)

Missed ==
    /\ AtFunction("missed")
    /\ Record("missed", [cursor |-> i, body |-> <<>>, clean_body |-> <<>>], 1)

(* No token of the line is a function name. *)
NoFunctionToken ==
    /\ pc = "scan"
    /\ i < Len(lines)
    /\ toks[i + 1] = <<>>
    /\ i' = next_index(i, i)
    /\ hist' = Append(hist, [h |-> i, kind |-> "none", name |-> "",
                             cursor |-> i, body |-> <<>>, clean_body |-> <<>>,
                             nmethods |-> Len(methods), missed |-> missed])
    /\ UNCHANGED <<lines, toks, methods, missed, pc>>

(* The while loop ends: return methods, missed. *)
Return ==
    /\ pc = "scan"
    /\ ~(i < Len(lines))
    /\ pc' = "done"
    /\ UNCHANGED <<lines, toks, i, methods, missed, hist>>

Next ==
    \/ CurlyOneliner
    \/ CurlyFunction
    \/ PythonFunction
    \/ CleanOneliner
    \/ Missed
    \/ NoFunctionToken
    \/ Return

Spec == Init /\ [][Next]_vars

(***************************************************************************)
(* Vocabulary of the properties, defined by counting rather than by the    *)
(* scans of the source.                                                    *)
(***************************************************************************)

Count(s, c) == Cardinality({ k \in 1..Len(s) : s[k] = c })

Net(s, open, close) == Count(s, open) - Count(s, close)

NonBlank(s) == \E k \in 1..Len(s) : s[k] \notin Whitespace

(* The last non-whitespace characters of s are the characters of suffix. *)
EndsWith(s, suffix) ==
    \E k \in 1..Len(s) :
        /\ k >= Len(suffix)
        /\ \A m \in 1..Len(suffix) : s[k - Len(suffix) + m] = suffix[m]
        /\ s[k] \notin Whitespace
        /\ \A m \in (k + 1)..Len(s) : s[m] \in Whitespace

(* Lines a..b of the file (0-based, inclusive) as one text. *)
Text(a, b) == join(SubSeq(lines, a + 1, b + 1))

(* Iterations that handled a function-name token. *)
FunctionEvents == { k \in 1..Len(hist) : hist[k].kind # "none" }

EventsOf(kind) == { k \in 1..Len(hist) : hist[k].kind = kind }

HeaderOf(k) == lines[hist[k].h + 1]

MethodsBefore(k) == IF k = 1 THEN 0 ELSE hist[k - 1].nmethods

MissedBefore(k) == IF k = 1 THEN 0 ELSE hist[k - 1].missed

(* The running '{}' balance at the end of line j of a block whose header is line h. *)
RunningBalance(h, j) == Net(Text(h, j), "{", "}")

Closers(k) == { j \in (hist[k].h + 1)..(Len(lines) - 1) : RunningBalance(hist[k].h, j) = 0 }

Unterminated(k) == hist[k].kind = "curly_function" /\ Closers(k) = {}

Terminated(k) == hist[k].kind = "curly_function" /\ Closers(k) # {}

(* What the locator can do with a function-name token. *)
Outcomes == {"curly_oneliner", "curly_function", "python_function", "clean_oneliner", "missed"}

(* No extractor precondition matches the line. *)
NoPrecondition(line) ==
    /\ Count(line, "{") = 0
    /\ ~EndsWith(line, <<":">>)
    /\ \/ EndsWith(line, <<";">>)
       \/ EndsWith(line, <<".", ".", ".">>)
       \/ Net(line, "(", ")") # 0

(* C1: the extractor is selected by the ordered tests (a) '{' present: one-liner  *)
(* when the line's brace balance is 0, multi-line otherwise; (b) else the         *)
(* stripped line ends with ':'; (c) else it ends with neither ';' nor '...' and   *)
(* its parentheses balance; (d) else none.  Exactly one outcome per line, and an  *)
(* earlier case wins.                                                             *)
C1_DispatchOrder ==
    \A k \in FunctionEvents :
        LET line  == HeaderOf(k)
            open  == Count(line, "{") > 0
            colon == EndsWith(line, <<":">>)
            decl  == EndsWith(line, <<";">>) \/ EndsWith(line, <<".", ".", ".">>)
            bal   == Net(line, "(", ")") = 0
        IN  /\ hist[k].kind \in {"curly_oneliner", "curly_function", "python_function",
                                 "clean_oneliner", "missed"}
            /\ hist[k].kind = "curly_oneliner" <=> (open /\ Net(line, "{", "}") = 0)
            /\ hist[k].kind = "curly_function" <=> (open /\ Net(line, "{", "}") # 0)
            /\ hist[k].kind = "python_function" <=> (~open /\ colon)
            /\ hist[k].kind = "clean_oneliner" <=> (~open /\ ~colon /\ ~decl /\ bal)
            /\ hist[k].kind = "missed" <=> (~open /\ ~colon /\ (decl \/ ~bal))
            /\ hist[k].kind = "missed" =>
                   hist[k].cursor = hist[k].h /\ hist[k].body = <<>> /\ hist[k].clean_body = <<>>

(* A line with '{' that ends with ':' went to the multi-line curly extractor. *)
C1_Witness ==
    \E k \in EventsOf("curly_function") :
        EndsWith(HeaderOf(k), <<":">>) /\ hist[k].cursor > hist[k].h

(* C2: a record (name, fullText) is appended iff the clean body is non-empty      *)
(* after trimming; a discard leaves the miss counter as it was.                   *)
C2_RecordIffCleanBody ==
    /\ Len(methods) = (IF hist = <<>> THEN 0 ELSE hist[Len(hist)].nmethods)
    /\ \A k \in 1..Len(hist) :
           IF hist[k].kind # "none" /\ NonBlank(hist[k].clean_body)
           THEN /\ hist[k].nmethods = MethodsBefore(k) + 1
                /\ methods[hist[k].nmethods] = <<hist[k].name, hist[k].body>>
           ELSE /\ hist[k].nmethods = MethodsBefore(k)
                /\ hist[k].kind # "missed" => hist[k].missed = MissedBefore(k)

(* A closing line was found, the clean body is whitespace only, nothing recorded. *)
C2_Witness ==
    \E k \in EventsOf("curly_function") :
        /\ Terminated(k)
        /\ hist[k].clean_body # <<>>
        /\ ~NonBlank(hist[k].clean_body)
        /\ hist[k].nmethods = MethodsBefore(k)
        /\ \E m \in EventsOf("curly_oneliner") : hist[m].nmethods = MethodsBefore(m)

(* C3: the miss counter is the number of scanned lines that carry a function-name *)
(* token and match no extractor precondition; such a line adds 1, yields no       *)
(* record and the scan goes on at the next line; nothing else changes the counter.*)
C3_MissCount ==
    /\ missed = Cardinality({ k \in FunctionEvents : NoPrecondition(HeaderOf(k)) })
    /\ missed = (IF hist = <<>> THEN 0 ELSE hist[Len(hist)].missed)
    /\ \A k \in 1..Len(hist) :
           IF hist[k].kind # "none" /\ NoPrecondition(HeaderOf(k))
           THEN /\ hist[k].missed = MissedBefore(k) + 1
                /\ hist[k].nmethods = MethodsBefore(k)
                /\ (IF k < Len(hist) THEN hist[k + 1].h ELSE i) = hist[k].h + 1
           ELSE hist[k].missed = MissedBefore(k)

(* A scan that finished with misses of each sort next to an unterminated block. *)
C3_Witness ==
    /\ pc = "done"
    /\ missed = 2
    /\ \E k \in FunctionEvents : Net(HeaderOf(k), "(", ")") # 0
    /\ \E k \in FunctionEvents : Unterminated(k)

(* C4: an extractor called at start returns a cursor c, start <= c <= len(lines)-1. *)
C4_CursorInRange ==
    \A k \in FunctionEvents :
        hist[k].h <= hist[k].cursor /\ hist[k].cursor <= Len(lines) - 1

(* The indentation-block extractor consumed two lines, up to the last of the file. *)
C4_Witness ==
    \E k \in EventsOf("python_function") :
        hist[k].cursor = hist[k].h + 2 /\ hist[k].cursor = Len(lines) - 1

(* C5: at most one function-name token of a line is handled, the first; after a  *)
(* header at h whose extractor returned c the next line examined is c + 1, so no *)
(* line of h..c is examined again and header indices strictly increase.          *)
C5_OneStartPerLine ==
    /\ i = (IF hist = <<>> THEN 0 ELSE hist[Len(hist)].cursor + 1)
    /\ \A k \in 1..Len(hist) :
           /\ hist[k].h = (IF k = 1 THEN 0 ELSE hist[k - 1].cursor + 1)
           /\ hist[k].kind # "none" => hist[k].name = toks[hist[k].h + 1][1]
           /\ \A m \in 1..Len(hist) :
                  k < m => /\ hist[k].h < hist[m].h
                           /\ hist[m].h \notin hist[k].h..hist[k].cursor

(* A line with two function-name tokens was handled once, and a consumed line that *)
(* carries a function-name token started no function.                              *)
C5_Witness ==
    /\ pc = "done"
    /\ \E k \in FunctionEvents : Len(toks[hist[k].h + 1]) = 2
    /\ \E k \in FunctionEvents :
           \E m \in (hist[k].h + 1)..hist[k].cursor : toks[m + 1] # <<>>

(* C6: when the running balance never reaches 0 up to the end of the file, the   *)
(* multi-line extractor returns the last line index and empty texts; no record   *)
(* is emitted and the miss counter is not incremented.                           *)
C6_UnterminatedBlock ==
    \A k \in 1..Len(hist) :
        Unterminated(k) =>
            /\ hist[k].cursor = Len(lines) - 1
            /\ hist[k].body = <<>>
            /\ hist[k].clean_body = <<>>
            /\ hist[k].nmethods = MethodsBefore(k)
            /\ hist[k].missed = MissedBefore(k)

(* An unterminated block that swallowed the rest of the file. *)
C6_Witness ==
    /\ pc = "done"
    /\ \E k \in 1..Len(hist) :
           Unterminated(k) /\ hist[k].h + 2 <= Len(lines) - 1 /\ k = Len(hist)

(* C7: the multi-line extractor returns the smallest j > start at which the      *)
(* running balance is exactly 0, and the full text is the header with lines      *)
(* start+1..j.                                                                   *)
C7_FirstZeroBalance ==
    \A k \in 1..Len(hist) :
        Terminated(k) =>
            /\ hist[k].cursor \in Closers(k)
            /\ \A j \in Closers(k) : hist[k].cursor <= j
            /\ hist[k].body = Text(hist[k].h, hist[k].cursor)

(* The running balance went below 0 before the closing line. *)
C7_Witness ==
    \E k \in 1..Len(hist) :
        /\ Terminated(k)
        /\ \E j \in (hist[k].h + 1)..(hist[k].cursor - 1) : RunningBalance(hist[k].h, j) < 0

(* C8 as stated: the clean body is the full text, header included, without its '}'. *)
C8_CleanBodyOfFullText ==
    \A k \in 1..Len(hist) :
        Terminated(k) => hist[k].clean_body = SelectSeq(hist[k].body, LAMBDA c : c # "}")

(* C8 as the code has it: the clean body is the lines after the header, through  *)
(* the closing line, with every '}' removed and every '{' kept; the header is    *)
(* not part of it.                                                               *)
C8_CleanBodyOfBodyLines ==
    \A k \in 1..Len(hist) :
        Terminated(k) =>
            LET after == Text(hist[k].h + 1, hist[k].cursor)
            IN  /\ Count(hist[k].clean_body, "}") = 0
                /\ Count(hist[k].clean_body, "{") = Count(after, "{")
                /\ hist[k].clean_body = SelectSeq(after, LAMBDA c : c # "}")

(* A block with a nested '{': the clean body keeps it. *)
C8_Witness ==
    \E k \in 1..Len(hist) :
        Terminated(k) /\ Count(hist[k].clean_body, "{") > 0

(* A line that is empty or only spaces, with or without its newline. *)
Blank(line) == \A k \in 1..Len(line) : line[k] = " " \/ (k = Len(line) /\ line[k] = NL)

(* Leading space characters of a line. *)
LeadingSpaces(line) ==
    Cardinality({ k \in 1..Len(line) : \A m \in 1..k : line[m] = " " })

(* Index of the first character that is not a space, 0 when there is none. *)
Indentation(line) ==
    IF LeadingSpaces(line) = Len(line) THEN 0 ELSE LeadingSpaces(line)

(* C9 as stated: no blank line is among the lines the indentation-block extractor *)
(* consumes.                                                                      *)
C9_BlankLineEndsBlock ==
    \A k \in EventsOf("python_function") :
        \A m \in (hist[k].h + 1)..hist[k].cursor : ~Blank(lines[m + 1])

(* C9 as the code has it: the newline counts as a non-space character, so a line  *)
(* of n spaces and a newline has indentation n.  The extractor consumes exactly   *)
(* the following lines whose indentation is >= the header's + 4; a line that is   *)
(* a lone newline, or has no character other than spaces, is never consumed.      *)
C9_IndentationEndsBlock ==
    \A k \in EventsOf("python_function") :
        LET need == Indentation(HeaderOf(k)) + 4
        IN  /\ \A m \in (hist[k].h + 1)..hist[k].cursor :
                   /\ Indentation(lines[m + 1]) >= need
                   /\ lines[m + 1] # <<NL>>
                   /\ LeadingSpaces(lines[m + 1]) # Len(lines[m + 1])
            /\ hist[k].cursor < Len(lines) - 1 =>
                   Indentation(lines[hist[k].cursor + 2]) < need

(* A block that a lone newline ended, and a block that consumed a line of spaces. *)
C9_Witness ==
    /\ \E k \in EventsOf("python_function") :
           /\ hist[k].cursor > hist[k].h
           /\ hist[k].cursor < Len(lines) - 1
           /\ lines[hist[k].cursor + 2] = <<NL>>
    /\ \E k \in EventsOf("python_function") :
           \E m \in (hist[k].h + 1)..hist[k].cursor : Blank(lines[m + 1])

(* C10: the scan of any file terminates: every iteration of the while loop       *)
(* strictly increases the scan index, which never passes len(lines); there are   *)
(* at most len(lines) iterations; the scan is never stuck before its return and  *)
(* returns with the index >= len(lines).                                         *)
C10_ScanTerminates ==
    /\ \A k \in 1..Len(hist) :
           (IF k < Len(hist) THEN hist[k + 1].h ELSE i) > hist[k].h
    /\ i <= Len(lines)
    /\ Len(hist) <= Len(lines)
    /\ \/ pc = "done"
       \/ pc = "scan" /\ ~(i < Len(lines))
       \/ pc = "scan" /\ i < Len(lines) /\ toks[i + 1] = <<>>
       \/ \E kind \in Outcomes : AtFunction(kind)
    /\ pc = "done" => i >= Len(lines)

(* A scan that ended after an extractor's inner loop had consumed lines. *)
C10_Witness ==
    /\ pc = "done"
    /\ i = Len(lines)
    /\ Len(lines) = MaxLines
    /\ \E k \in FunctionEvents : hist[k].cursor > hist[k].h
    /\ \E k \in 1..Len(hist) : hist[k].kind = "none"

====
